---------------------------- MODULE Spec2Model ----------------------------
(***************************************************************************)
(* A model of 5G.py: the propagation model (signal_strength_model), the    *)
(* grid builder (create_grid), the field evaluation                        *)
(* (simulate_signal_strength), the statistics of a field                   *)
(* (_generate_analysis_report, _plot_cdf_results) and the slots of         *)
(* ProfessionalSignalApp.                                                  *)
(*                                                                         *)
(* Specifications.  SpecModel, SpecGrid, SpecField and SpecStats call one  *)
(* function on each of the sampled arguments; SpecExample evaluates the    *)
(* cells of the field of the program's default parameters; Spec is the     *)
(* application with its slots, together with the calls of create_grid.     *)
(*                                                                         *)
(* Numbers.  The program computes in binary floating point.  The model     *)
(* computes in fixed point on integers:                                    *)
(*   - a power, gain or loss (dBm, dBi, dB) is an integer number of        *)
(*     thousandths of a dB: 40 dBm is 40000;                               *)
(*   - a distance is an integer number of centimetres: 1 m is 100;         *)
(*   - a frequency is an integer number of MHz (the frequency input has    *)
(*     no decimals);                                                       *)
(*   - a grid coordinate or step is an integer number of metres, where     *)
(*     floating point arithmetic is exact.                                 *)
(* log10 is computed by a binary-logarithm algorithm, accurate to about    *)
(* one thousandth, and monotone.  The floats that are not numbers (NaN and *)
(* the two infinities) are three integers outside the range of the powers, *)
(* compared as IEEE 754 compares them.                                     *)
(***************************************************************************)
EXTENDS Integers, Sequences, FiniteSets, TLC

VARIABLES
    \* one call of signal_strength_model: its arguments, its position, its result
    call_distance, call_power, call_frequency, call_gain, call_env,
    call_pc, call_result,
    \* one call of create_grid: its arguments, its position, its result
    grid_x_min, grid_x_max, grid_y_min, grid_y_max, grid_step,
    grid_pc, grid_result,
    \* ProfessionalSignalApp
    param_inputs_widgets,        \* the value of each parameter input
    current_simulation_results,  \* the field of the last run, or None
    figure,                      \* what the coverage figure shows
    analysis_display,            \* what the analysis text shows
    cdf_figure,                  \* what the CDF figure shows
    handler,                     \* the slot that ran last
    status_bar,                  \* the status messages it showed, in order
    message_boxes,               \* the message boxes it showed, in order
    saved_figure,                \* the figure it wrote to a file, if any
    \* one call of simulate_signal_strength: its arguments, its position, its result
    sim_args, sim_pc, sim_result,
    \* one call of _generate_analysis_report and of _plot_cdf_results on a field
    stats_field, stats_pc, stats_report, stats_cdf,
    \* one cell of the field of the default parameters
    cell_row, cell_col, cell_pc, cell_value

callVars == << call_distance, call_power, call_frequency, call_gain, call_env,
               call_pc, call_result >>

gridVars == << grid_x_min, grid_x_max, grid_y_min, grid_y_max, grid_step,
               grid_pc, grid_result >>

appVars == << param_inputs_widgets, current_simulation_results, figure,
              analysis_display, cdf_figure, handler, status_bar, message_boxes,
              saved_figure >>

simVars == << sim_args, sim_pc, sim_result >>

statsVars == << stats_field, stats_pc, stats_report, stats_cdf >>

cellVars == << cell_row, cell_col, cell_pc, cell_value >>

otherVars == << simVars, statsVars, cellVars >>

vars == << callVars, gridVars, appVars, otherVars >>

-----------------------------------------------------------------------------
(* Bounds of the model *)

\* distances of 50 m, 100 m, ... MaxDistanceSteps * 50 m are sampled
MaxDistanceSteps == 20

\* distances in cm: behind and at the transmitter (-1 m, 0), below one metre
\* (1 cm, 50 cm), 1 m, 10 m, 130 m, and every 50 m up to MaxDistanceSteps * 50 m
Distances ==
    {-100, 0, 1, 50, 100, 1000, 13000} \cup { 5000 * k : k \in 1..MaxDistanceSteps }

\* MHz: invalid ones, and the ends and the default of the input's range
Frequencies == {-100, 0, 600, 2600, 6000}

\* thousandths of dBm: the ends and the default of the input's range
Powers == {10000, 40000, 60000}

\* thousandths of dBi: the ends and the default of the input's range
Gains == {0, 17000, 30000}

\* the four environments of the application, and a value that is none of them
Environments == {"urban_dense", "urban_macro", "suburban", "rural_macro", "indoor"}

NoResult == "none"

\* no call of simulate_signal_strength
NoArgs ==
    [x_min |-> 0, x_max |-> 0, y_min |-> 0, y_max |-> 0, step |-> 0,
     bs_x |-> 0, bs_y |-> 0, transmit_power_dbm |-> 0,
     transmit_power_is_int |-> FALSE, frequency_mhz |-> 0,
     antenna_gain_dbi |-> 0, environment_type |-> "indoor"]

\* metres: bounds of the area given to create_grid, below, at and above 0,
\* with the bounds 0 and 100 of the 11 x 11 example
GridCoordinates == {-10, 0, 5, 10, 100}

\* metres: steps that are not positive, steps that divide the ranges and one
\* that does not
GridSteps == {-5, 0, 3, 5, 10}

\* the fields given to the statistics have up to MaxStatsPoints entries
MaxStatsPoints == 3

\* metres: the application's area is [-AreaBound, AreaBound] on each axis by
\* default (the program's default is 500), and each bound can be set to
\* -AreaBound or AreaBound
AreaBound == 10

-----------------------------------------------------------------------------
(* np.log10, in thousandths, of an integer n >= 1 *)

RECURSIVE floor_log2(_)
floor_log2(n) ==
    IF n < 2 THEN 0 ELSE 1 + floor_log2(n \div 2)

RECURSIVE pow2(_)
pow2(e) ==
    IF e = 0 THEN 1 ELSE 2 * pow2(e - 1)

\* n / 2^floor_log2(n), a number of [1, 2), in units of 2^-14
mantissa(n) ==
    LET e == floor_log2(n)
    IN  IF e <= 14 THEN n * pow2(14 - e) ELSE n \div pow2(e - 14)

\* the fractional bits i..14 of log2 of m (in units of 2^-14, in [1, 2)),
\* by repeated squaring
RECURSIVE log2_frac(_, _)
log2_frac(m, i) ==
    IF i > 14 THEN 0
    ELSE LET sq == (m * m) \div 16384
         IN  IF sq >= 32768
             THEN pow2(14 - i) + log2_frac(sq \div 2, i + 1)
             ELSE log2_frac(sq, i + 1)

\* 1000 * log10(n): log2(n) * log10(2), with log10(2) = 0.30103
log10(n) ==
    (floor_log2(n) * 30103 + (log2_frac(mantissa(n), 1) * 30103) \div 16384) \div 100

Max(a, b) == IF a >= b THEN a ELSE b

-----------------------------------------------------------------------------
(* signal_strength_model *)

\* line 34: the result for distance <= 0
distance_sentinel(transmit_power_dbm) ==
    transmit_power_dbm - 200000

\* a slip: the sentinel of line 34 copied to line 37
frequency_sentinel_copied(transmit_power_dbm) ==
    transmit_power_dbm - 200000

\* line 37: the result for frequency_mhz <= 0
frequency_sentinel(transmit_power_dbm) ==
    transmit_power_dbm - 300000

\* line 42: 20*log10(distance) + 20*log10(frequency_mhz) - 27.55, distance in m
\* a slip: the term of the distance left out of the free-space loss
fspl_m_frequency_only(distance, frequency_mhz) ==
    20 * log10(frequency_mhz) - 27550

\* line 42
fspl_m(distance, frequency_mhz) ==
    20 * (log10(distance) - 2000) + 20 * log10(frequency_mhz) - 27550

\* lines 49, 53, 57, 61: log10(distance + 1) is log10((distance_cm + 100) / 100)
clutter_factor(distance, frequency_mhz, environment_type) ==
    CASE environment_type = "urban_dense" ->
            20000 + (frequency_mhz * (log10(distance + 100) - 2000)) \div 10000
      [] environment_type = "urban_macro" ->
            15000 + (frequency_mhz * (log10(distance + 100) - 2000)) \div 20000
      [] environment_type = "suburban" -> 10000
      [] environment_type = "rural_macro" -> 3000
      [] OTHER -> 0

\* a variant: the logarithm of max(distance_km, 0.001) instead of that of
\* distance_km + 0.001
path_loss_exponent_factor_max(distance, environment_type) ==
    LET k == CASE environment_type = "urban_dense" -> 18
               [] environment_type = "urban_macro" -> 12
               [] environment_type = "suburban" -> 8
               [] environment_type = "rural_macro" -> 5
               [] OTHER -> 0
    IN  k * (log10(Max(distance, 100)) - 5000)

\* lines 39, 50, 54, 58, 62: k * log10(distance_km + 0.001), where
\* distance_km + 0.001 is (distance_cm + 100) / 100000.  Line 40 replaces a
\* distance_km of 0, which no distance > 0 of the model gives.
path_loss_exponent_factor(distance, environment_type) ==
    LET k == CASE environment_type = "urban_dense" -> 18
               [] environment_type = "urban_macro" -> 12
               [] environment_type = "suburban" -> 8
               [] environment_type = "rural_macro" -> 5
               [] OTHER -> 0
    IN  k * (log10(distance + 100) - 5000)

\* a slip: line 65 left out
additional_loss_unclamped(distance, frequency_mhz, environment_type) ==
    IF environment_type \in {"urban_dense", "urban_macro", "suburban", "rural_macro"}
    THEN clutter_factor(distance, frequency_mhz, environment_type)
         + path_loss_exponent_factor(distance, environment_type)
    ELSE 0

\* a slip: an environment that is none of the four treated as the default
\* one of line 32, urban_dense
additional_loss_default_environment(distance, frequency_mhz, environment_type) ==
    LET env == IF environment_type \in {"urban_dense", "urban_macro",
                                        "suburban", "rural_macro"}
               THEN environment_type ELSE "urban_dense"
    IN  Max(0, clutter_factor(distance, frequency_mhz, env)
               + path_loss_exponent_factor(distance, env))

\* lines 44-65: 0 for an environment that is none of the four, and clamped
additional_loss(distance, frequency_mhz, environment_type) ==
    IF environment_type \in {"urban_dense", "urban_macro", "suburban", "rural_macro"}
    THEN Max(0, clutter_factor(distance, frequency_mhz, environment_type)
                + path_loss_exponent_factor(distance, environment_type))
    ELSE Max(0, 0)

\* a slip: the path loss added to the EIRP
received_power_dbm_added(eirp_dbm, path_loss) ==
    eirp_dbm + path_loss

\* lines 66-68
received_power_dbm(eirp_dbm, path_loss) ==
    eirp_dbm - path_loss

\* a slip: the frequency checked before the distance
signal_strength_model_frequency_first(distance, transmit_power_dbm, frequency_mhz, antenna_gain_dbi, environment_type) ==
    IF frequency_mhz <= 0 THEN frequency_sentinel(transmit_power_dbm)
    ELSE IF distance <= 0 THEN distance_sentinel(transmit_power_dbm)
    ELSE received_power_dbm(
             transmit_power_dbm + antenna_gain_dbi,
             fspl_m(distance, frequency_mhz)
             + additional_loss(distance, frequency_mhz, environment_type))

\* lines 31-69
signal_strength_model(distance, transmit_power_dbm, frequency_mhz, antenna_gain_dbi, environment_type) ==
    IF distance <= 0 THEN distance_sentinel(transmit_power_dbm)
    ELSE IF frequency_mhz <= 0 THEN frequency_sentinel(transmit_power_dbm)
    ELSE received_power_dbm(
             transmit_power_dbm + antenna_gain_dbi,
             fspl_m(distance, frequency_mhz)
             + additional_loss(distance, frequency_mhz, environment_type))

-----------------------------------------------------------------------------
(* create_grid *)

\* a slip: the number of values rounded down, floor((stop - start) / step)
arange_floor(start, stop, step) ==
    LET n == IF stop > start THEN (stop - start) \div step ELSE 0
    IN  [i \in 1..n |-> start + (i - 1) * step]

\* np.arange(start, stop, step) for integers and step > 0: the values
\* start + i*step below stop, ceil((stop - start) / step) of them
arange(start, stop, step) ==
    LET n == IF stop > start THEN (stop - start + step - 1) \div step ELSE 0
    IN  [i \in 1..n |-> start + (i - 1) * step]

\* a slip: the range built without its upper end, np.arange(min, max, step)
axis_samples_exclusive(min, max, step) ==
    IF min >= max THEN << min >> ELSE arange(min, max, step)

\* lines 75-78: the samples of one axis
axis_samples(min, max, step) ==
    IF min >= max THEN << min >> ELSE arange(min, max + step, step)

\* a slip: np.meshgrid(x, y, indexing='ij'), x varying by row
meshgrid_ij(x, y) ==
    [xx |-> [i \in 1..Len(x) |-> [j \in 1..Len(y) |-> x[i]]],
     yy |-> [i \in 1..Len(x) |-> [j \in 1..Len(y) |-> y[j]]]]

\* line 79: np.meshgrid(x, y): Len(y) rows of Len(x) columns
meshgrid(x, y) ==
    [xx |-> [i \in 1..Len(y) |-> [j \in 1..Len(x) |-> x[j]]],
     yy |-> [i \in 1..Len(y) |-> [j \in 1..Len(x) |-> y[i]]]]

\* a slip: no error for a step that is not positive, an empty mesh instead
create_grid_without_error(x_min, x_max, y_min, y_max, step) ==
    IF step <= 0
    THEN [raised |-> "none", xx |-> << >>, yy |-> << >>]
    ELSE LET mesh == meshgrid(axis_samples(x_min, x_max, step),
                              axis_samples(y_min, y_max, step))
         IN  [raised |-> "none", xx |-> mesh.xx, yy |-> mesh.yy]

\* lines 72-80: what the call raises ("none" when it returns), and what it returns
create_grid(x_min, x_max, y_min, y_max, step) ==
    IF step <= 0
    THEN [raised |-> "ValueError", xx |-> << >>, yy |-> << >>]
    ELSE LET mesh == meshgrid(axis_samples(x_min, x_max, step),
                              axis_samples(y_min, y_max, step))
         IN  [raised |-> "none", xx |-> mesh.xx, yy |-> mesh.yy]

Rows(a) == Len(a)

Columns(a) == IF Len(a) = 0 THEN 0 ELSE Len(a[1])

-----------------------------------------------------------------------------
(* simulate_signal_strength *)

\* floor of the square root of n >= 0, by Newton's iteration from x
RECURSIVE sqrt_iter(_, _)
sqrt_iter(n, x) ==
    LET y == (x + n \div x) \div 2
    IN  IF y >= x THEN x ELSE sqrt_iter(n, y)

sqrt_floor(n) ==
    IF n = 0 THEN 0 ELSE sqrt_iter(n, n)

\* lines 89, 91: np.sqrt(dx ** 2 + dy ** 2) for dx, dy in metres, in cm; beyond
\* 447 m the root is taken to the decimetre, to stay within 32-bit integers
distances(dx, dy) ==
    LET s == dx * dx + dy * dy
    IN  IF s <= 200000 THEN sqrt_floor(10000 * s) ELSE 10 * sqrt_floor(100 * s)

\* the conversion of a float to an integer type: int(v), towards zero
astype_int(v) ==
    IF v >= 0 THEN (v \div 1000) * 1000 ELSE -((-v) \div 1000) * 1000

\* line 33: the Python type of `transmit_power_dbm - 200` and of
\* `transmit_power_dbm - 300` is the type of transmit_power_dbm; the result
\* of line 69 is a numpy float
returns_int(distance, frequency_mhz, transmit_power_is_int) ==
    transmit_power_is_int /\ (distance <= 0 \/ frequency_mhz <= 0)

\* lines 93-100: np.vectorize without otypes takes the type of its output
\* array from the result of the call on the first element, and converts every
\* result to it
vectorize(outputs, first_is_int) ==
    IF first_is_int
    THEN [i \in 1..Len(outputs) |->
            [j \in 1..Len(outputs[i]) |-> astype_int(outputs[i][j])]]
    ELSE outputs

\* a slip: a distance that is kept above zero, np.sqrt(...) + 0.01
cell_distance_never_zero(x, y, bs_x, bs_y) ==
    distances(x - bs_x, y - bs_y) + 1

\* lines 88-91: the distance of the cell at (x, y) from the base station
cell_distance(x, y, bs_x, bs_y) ==
    distances(x - bs_x, y - bs_y)

\* lines 83-101: the model applied to the distance of every cell; the 1 x 1
\* case of lines 88-89 computes the same distance.  transmit_power_is_int
\* tells whether transmit_power_dbm is a Python int (40) or a float (40.0).
simulate_signal_strength(xx, yy, bs_x, bs_y, transmit_power_dbm, transmit_power_is_int, frequency_mhz, antenna_gain_dbi, environment_type) ==
    LET outputs ==
            [i \in 1..Len(xx) |->
                [j \in 1..Len(xx[i]) |->
                    signal_strength_model(
                        cell_distance(xx[i][j], yy[i][j], bs_x, bs_y),
                        transmit_power_dbm, frequency_mhz, antenna_gain_dbi,
                        environment_type)]]
    IN  vectorize(outputs,
            returns_int(cell_distance(xx[1][1], yy[1][1], bs_x, bs_y),
                        frequency_mhz, transmit_power_is_int))

-----------------------------------------------------------------------------
(* The statistics of a field: _generate_analysis_report, _plot_cdf_results *)

\* The values of a float that are not numbers are kept apart from the
\* thousandths of dBm: the two infinities lie below and above every number,
\* and NaN is a value on which every comparison is false.
PosInf == 10 ^ 9

NegInf == -(10 ^ 9)

NaN == 2 * (10 ^ 9)

isnan(v) == v = NaN

isfinite(v) == v \notin {NaN, PosInf, NegInf}

not_nan(v) == ~isnan(v)

\* the comparisons of floats: v >= t, v < t, v <= t
ge(v, t) == ~isnan(v) /\ ~isnan(t) /\ v >= t

lt(v, t) == ~isnan(v) /\ ~isnan(t) /\ v < t

le(v, t) == ~isnan(v) /\ ~isnan(t) /\ v <= t

\* strengths_data.flatten(): the rows one after the other
RECURSIVE flatten(_)
flatten(a) ==
    IF Len(a) = 0 THEN << >> ELSE Head(a) \o flatten(Tail(a))

\* np.sum(mask): how many entries of the boolean array are true
count_nonzero(mask) ==
    Cardinality({ i \in 1..Len(mask) : mask[i] })

\* np.sort, of values that are not NaN
RECURSIVE sort(_)
sort(data) ==
    IF Len(data) = 0
    THEN << >>
    ELSE LET rest == sort(Tail(data))
             k == count_nonzero([i \in 1..Len(rest) |-> rest[i] <= Head(data)])
         IN  SubSeq(rest, 1, k) \o << Head(data) >> \o SubSeq(rest, k + 1, Len(rest))

RECURSIVE sum(_)
sum(data) ==
    IF Len(data) = 0 THEN 0 ELSE Head(data) + sum(Tail(data))

\* np.nanmax, np.nanmin of data with an entry that is not NaN
nanmax(data) == LET sorted == sort(SelectSeq(data, not_nan)) IN sorted[Len(sorted)]

nanmin(data) == LET sorted == sort(SelectSeq(data, not_nan)) IN sorted[1]

\* np.nanmean of data with an entry that is not NaN
nanmean(data) ==
    LET valid == SelectSeq(data, not_nan)
        up == count_nonzero([i \in 1..Len(valid) |-> valid[i] = PosInf]) > 0
        down == count_nonzero([i \in 1..Len(valid) |-> valid[i] = NegInf]) > 0
    IN  IF up /\ down THEN NaN
        ELSE IF up THEN PosInf
        ELSE IF down THEN NegInf
        ELSE sum(valid) \div Len(valid)

\* line 696
excellent_rsrp == -80000

good_rsrp == -95000

fair_rsrp == -105000

poor_rsrp == -115000

Tiers == {"excellent", "good", "fair", "marginal", "poor"}

\* a slip: values below -150 dBm taken for invalid and left out of the poor tier
cat_counts_bounded_poor(data) ==
    [excellent |->
         count_nonzero([i \in 1..Len(data) |-> ge(data[i], excellent_rsrp)]),
     good |->
         count_nonzero([i \in 1..Len(data) |->
             ge(data[i], good_rsrp) /\ lt(data[i], excellent_rsrp)]),
     fair |->
         count_nonzero([i \in 1..Len(data) |->
             ge(data[i], fair_rsrp) /\ lt(data[i], good_rsrp)]),
     marginal |->
         count_nonzero([i \in 1..Len(data) |->
             ge(data[i], poor_rsrp) /\ lt(data[i], fair_rsrp)]),
     poor |->
         count_nonzero([i \in 1..Len(data) |->
             lt(data[i], poor_rsrp) /\ ge(data[i], -150000)])]

\* line 697
cat_counts(data) ==
    [excellent |->
         count_nonzero([i \in 1..Len(data) |-> ge(data[i], excellent_rsrp)]),
     good |->
         count_nonzero([i \in 1..Len(data) |->
             ge(data[i], good_rsrp) /\ lt(data[i], excellent_rsrp)]),
     fair |->
         count_nonzero([i \in 1..Len(data) |->
             ge(data[i], fair_rsrp) /\ lt(data[i], good_rsrp)]),
     marginal |->
         count_nonzero([i \in 1..Len(data) |->
             ge(data[i], poor_rsrp) /\ lt(data[i], fair_rsrp)]),
     poor |->
         count_nonzero([i \in 1..Len(data) |-> lt(data[i], poor_rsrp)])]

\* line 698
total_points(data) == IF Len(data) > 0 THEN Len(data) ELSE 1

\* line 701: (count / total_points) * 100, as the fraction num / den
percentage(count, total) ==
    IF total > 0 THEN [num |-> count * 100, den |-> total] ELSE [num |-> 0, den |-> 1]

\* line 347: the text shown before any report; it has no indicator and no table
initial_html ==
    [kind |-> "initial", max_rsrp |-> 0, min_rsrp |-> 0, avg_rsrp |-> 0,
     cat_counts |-> [t \in Tiers |-> 0],
     percentages |-> [t \in Tiers |-> [num |-> 0, den |-> 1]],
     total_area_sqm |-> 0]

\* lines 692-703: the text of the analysis for a field
analysis_report(strengths_data, total_area_sqm) ==
    LET data == flatten(strengths_data)
    IN  IF Len(data) = 0 \/ \A i \in 1..Len(data) : isnan(data[i])
        THEN initial_html
        ELSE [kind |-> "report",
              max_rsrp |-> nanmax(data), min_rsrp |-> nanmin(data),
              avg_rsrp |-> nanmean(data),
              cat_counts |-> cat_counts(data),
              percentages |->
                  [t \in Tiers |-> percentage(cat_counts(data)[t], total_points(data))],
              total_area_sqm |-> total_area_sqm]

\* line 717
rsrp_thresholds == << poor_rsrp, fair_rsrp, good_rsrp, excellent_rsrp >>

\* line 354: the CDF figure before any plot
empty_cdf_figure ==
    [kind |-> "empty", sorted_data |-> << >>, yvals |-> << >>,
     annotations |-> {}, raised |-> "none"]

\* lines 709, 712: the text "no valid data"
no_data_cdf_figure ==
    [kind |-> "no_data", sorted_data |-> << >>, yvals |-> << >>,
     annotations |-> {}, raised |-> "none"]

\* line 708, and a plot that was not completed
unfinished_cdf_figure ==
    [kind |-> "unfinished", sorted_data |-> << >>, yvals |-> << >>,
     annotations |-> {}, raised |-> "none"]

\* line 713: np.arange(n) / float(n - 1 if n > 1 else 1), as fractions
cdf_yvals(n) ==
    [r \in 1..n |-> [num |-> r - 1, den |-> IF n > 1 THEN n - 1 ELSE 1]]

\* a slip: the annotation of every threshold
annotated_thresholds_all(sorted_data) ==
    { rsrp_thresholds[k] : k \in 1..Len(rsrp_thresholds) }

\* line 719
annotated_thresholds(sorted_data) ==
    { t \in { rsrp_thresholds[k] : k \in 1..Len(rsrp_thresholds) } :
         lt(sorted_data[1], t) /\ lt(t, sorted_data[Len(sorted_data)]) }

\* line 720: np.sum(sorted_data <= threshold) / len(sorted_data), as a fraction
threshold_prob(sorted_data, threshold) ==
    [threshold |-> threshold,
     num |-> count_nonzero([i \in 1..Len(sorted_data) |->
                                le(sorted_data[i], threshold)]),
     den |-> Len(sorted_data)]

\* line 723: set_xlim raises ValueError for a limit that is NaN or infinite
set_xlim_raises(data_min, data_max) ==
    IF isfinite(data_min) /\ isfinite(data_max) THEN "none" ELSE "ValueError"

\* lines 706-724: the CDF figure for a field, and what the call raises
cdf_plot(strengths_data) ==
    LET data == flatten(strengths_data)
        data_flat == SelectSeq(data, not_nan)
        sorted_data == sort(data_flat)
    IN  IF Len(data) = 0 \/ \A i \in 1..Len(data) : isnan(data[i])
        THEN no_data_cdf_figure
        ELSE IF Len(data_flat) = 0
        THEN no_data_cdf_figure
        ELSE [kind |-> "cdf",
              sorted_data |-> sorted_data,
              yvals |-> cdf_yvals(Len(sorted_data)),
              annotations |->
                  { threshold_prob(sorted_data, t) :
                        t \in annotated_thresholds(sorted_data) },
              raised |-> set_xlim_raises(sorted_data[1],
                                         sorted_data[Len(sorted_data)])]

-----------------------------------------------------------------------------
(* ProfessionalSignalApp *)

\* line 223: the data of the items of the env_type combo box, by index
env_type_options == << "urban_dense", "urban_macro", "suburban", "rural_macro" >>

\* lines 216-220, with the area scaled down to AreaBound
default_param_values ==
    [env_type |-> 0, bs_x |-> 0, bs_y |-> 0, tx_power |-> 40000,
     antenna_gain |-> 17000, frequency |-> 2600,
     x_min |-> -AreaBound, x_max |-> AreaBound,
     y_min |-> -AreaBound, y_max |-> AreaBound,
     step |-> 10, noise_floor |-> -110000, colormap |-> 0]

\* lines 262-263: the sliders of the inputs defined with slider parameters
\* (lines 226-228)
slider_keys == {"tx_power_slider", "antenna_gain_slider", "frequency_slider"}

\* the input that a slider belongs to
slider_param(slider_key) ==
    CASE slider_key = "tx_power_slider" -> "tx_power"
      [] slider_key = "antenna_gain_slider" -> "antenna_gain"
      [] slider_key = "frequency_slider" -> "frequency"

\* lines 126, 128, 143 and 616-617: int(value * 10**decimals), with one
\* decimal for the power and the gain (thousandths to tenths) and none for
\* the frequency; the ranges of these inputs hold no negative value
slider_value(key, value) ==
    IF key = "frequency" THEN value ELSE value \div 100

\* lines 244-297: the inputs holding the given values, each slider at the
\* value of its input
widgets(values) ==
    [key \in (DOMAIN values) \cup slider_keys |->
        IF key \in slider_keys
        THEN slider_value(slider_param(key), values[slider_param(key)])
        ELSE values[key]]

\* setValue or setCurrentIndex on one input; line 143 moves its slider
set_widget(w, key, value) ==
    [k \in DOMAIN w |->
        IF k = key THEN value
        ELSE IF k \in slider_keys /\ slider_param(k) = key
             THEN slider_value(key, value)
             ELSE w[k]]

\* a slip: the colormap, made apart from the other inputs, left as it is
reset_widgets_keep_colormap(w) ==
    [key \in DOMAIN w |->
        IF key = "colormap" THEN w[key]
        ELSE IF key \in slider_keys
             THEN slider_value(slider_param(key),
                               default_param_values[slider_param(key)])
             ELSE default_param_values[key]]

\* lines 605-617: every input set to its default (lines 608-609), which
\* moves its slider (line 143), and every slider set to the default too
reset_widgets(w) ==
    [key \in DOMAIN w |->
        IF key \in slider_keys
        THEN slider_value(slider_param(key),
                          default_param_values[slider_param(key)])
        ELSE default_param_values[key]]

\* the values the user gives to each input, within the input's range
\* (lines 226-228 and 280)
WidgetValues ==
    [env_type |-> {0, 3}, bs_x |-> {0}, bs_y |-> {0}, tx_power |-> {40000},
     antenna_gain |-> {17000}, frequency |-> {2600},
     x_min |-> {-AreaBound, AreaBound}, x_max |-> {-AreaBound, AreaBound},
     y_min |-> {-AreaBound, AreaBound}, y_max |-> {-AreaBound, AreaBound},
     step |-> {-10, 0, 10}, noise_floor |-> {-110000}, colormap |-> {0}]

\* line 195: no field yet
None == [is_none |-> TRUE, strengths |-> << >>]

\* a slip: the field of the first run kept for the runs that follow
Field_kept(strengths) ==
    IF current_simulation_results.is_none
    THEN [is_none |-> FALSE, strengths |-> strengths]
    ELSE current_simulation_results

\* line 643: the field of a run
Field(strengths) ==
    [is_none |-> FALSE, strengths |-> strengths]

\* line 330: the figure before any plot
BlankFigure == [kind |-> "blank", strengths |-> << >>]

\* lines 659-689: the coverage plot of a field
CoverageFigure(strengths) == [kind |-> "coverage", strengths |-> strengths]

\* line 661, and a plot that was not completed
UnfinishedFigure == [kind |-> "unfinished", strengths |-> << >>]

\* what the slot that ran last showed and wrote
NoOutput == << >>

NoFile == [saved |-> FALSE, figure |-> BlankFigure]

\* the application is not constructed: a function of the module is called alone
IdleApp ==
    /\ param_inputs_widgets = widgets(default_param_values)
    /\ current_simulation_results = None
    /\ figure = BlankFigure
    /\ analysis_display = initial_html
    /\ cdf_figure = empty_cdf_figure
    /\ handler = "no_app"
    /\ status_bar = NoOutput
    /\ message_boxes = NoOutput
    /\ saved_figure = NoFile

\* lines 171-197: the application after __init__
InitApp ==
    /\ param_inputs_widgets = widgets(default_param_values)
    /\ current_simulation_results = None
    /\ figure = BlankFigure
    /\ analysis_display = initial_html
    /\ cdf_figure = empty_cdf_figure
    /\ handler = "__init__"
    /\ status_bar = NoOutput
    /\ message_boxes = NoOutput
    /\ saved_figure = NoFile

\* the user changes the value of one input
SetParameter ==
    /\ handler # "no_app"
    /\ \E key \in DOMAIN WidgetValues :
          \E value \in WidgetValues[key] :
             /\ value # param_inputs_widgets[key]
             /\ param_inputs_widgets' =
                    set_widget(param_inputs_widgets, key, value)
    /\ handler' = "valueChanged"
    /\ status_bar' = NoOutput
    /\ message_boxes' = NoOutput
    /\ saved_figure' = NoFile
    /\ UNCHANGED << current_simulation_results, figure, analysis_display,
                    cdf_figure >>
    /\ UNCHANGED << callVars, gridVars >>
    /\ UNCHANGED otherVars

\* a slip: no check of the bounds, line 636 left out
range_is_invalid_never(x_min, x_max, y_min, y_max) ==
    FALSE

\* a slip: the check of line 636 made with >=
range_is_invalid_or_equal(x_min, x_max, y_min, y_max) ==
    x_min >= x_max \/ y_min >= y_max

\* line 636
range_is_invalid(x_min, x_max, y_min, y_max) ==
    x_min > x_max \/ y_min > y_max

\* lines 646-650: the area of the grid, in square metres
total_area_sqm(xx, yy, step) ==
    IF Columns(xx) > 1 /\ Rows(xx) > 1
    THEN ((Columns(xx) - 1) * (xx[1][2] - xx[1][1]))
         * ((Rows(xx) - 1) * (yy[2][1] - yy[1][1]))
    ELSE step * step

\* the calls of run_simulation into numpy, matplotlib and Qt, in order
RunSteps ==
    << "create_grid", "simulate_signal_strength", "_plot_simulation_results",
       "_generate_analysis_report", "_plot_cdf_results" >>

NoFault == [step |-> "none", raises |-> "none"]

\* what the environment does to a run: nothing, or one of its calls fails
\* (memory, the plotting backend) with a ValueError or another exception
Faults ==
    {NoFault} \cup
    [step : { RunSteps[k] : k \in 1..Len(RunSteps) },
     raises : {"ValueError", "Exception"}]

\* a slip: one handler for every exception, shown as critical
except_box_critical(raises) ==
    "critical:Exception"

\* lines 655, 656: the message box of the handler of an exception
except_box(raises) ==
    IF raises = "ValueError" THEN "warning:ValueError" ELSE "critical:Exception"

\* lines 625-656: the effect of run_simulation on the inputs w, for each
\* thing the environment can do, as the new values of the application's
\* fields and what is shown
run_simulation_effects(w) ==
    LET unchanged(status, boxes) ==
            [results |-> current_simulation_results, figure |-> figure,
             analysis |-> analysis_display, cdf |-> cdf_figure,
             status |-> status, boxes |-> boxes]
        read == << "initialising", "reading" >>
        info == IF w.x_min = w.x_max \/ w.y_min = w.y_max
                THEN << "information:range_equal" >> ELSE << >>
        failed(raises) ==
            IF raises = "ValueError"
            THEN << "failed:ValueError" >> ELSE << "failed:Exception" >>
        grid == create_grid(w.x_min, w.x_max, w.y_min, w.y_max, w.step)
        \* line 627: the value of the tx_power input is a float
        signal_strengths ==
            simulate_signal_strength(grid.xx, grid.yy, w.bs_x, w.bs_y,
                w.tx_power, FALSE, w.frequency, w.antenna_gain,
                env_type_options[w.env_type + 1])
        report == analysis_report(signal_strengths,
                                  total_area_sqm(grid.xx, grid.yy, w.step))
        cdf == cdf_plot(signal_strengths)
        effect(fault) ==
            LET cdf_raised == IF fault.step = "_plot_cdf_results"
                              THEN fault.raises ELSE cdf.raised
                raised == IF fault.step \in {"_plot_simulation_results",
                                             "_generate_analysis_report"}
                          THEN fault.raises ELSE cdf_raised
            IN  IF w.step <= 0
                THEN unchanged(read \o << "abort:step" >>, << "warning:step" >>)
                ELSE IF w.frequency <= 0
                THEN unchanged(read \o << "abort:frequency" >>,
                               << "warning:frequency" >>)
                ELSE IF range_is_invalid(w.x_min, w.x_max, w.y_min, w.y_max)
                THEN unchanged(read \o << "abort:range" >>, << "warning:range" >>)
                ELSE IF fault.step = "create_grid" \/ grid.raised # "none"
                THEN LET raises == IF grid.raised # "none" THEN grid.raised
                                   ELSE fault.raises
                     IN  unchanged(read \o << "creating_grid" >> \o failed(raises),
                                   info \o << except_box(raises) >>)
                ELSE IF Len(grid.xx) = 0 \/ Len(grid.xx[1]) = 0
                THEN unchanged(read \o << "creating_grid", "abort:grid" >>,
                               info \o << "warning:grid" >>)
                ELSE IF fault.step = "simulate_signal_strength"
                THEN unchanged(read \o << "creating_grid", "computing" >>
                                    \o failed(fault.raises),
                               info \o << except_box(fault.raises) >>)
                ELSE [\* line 643 stores the field before the plots and the report
                      results |-> Field(signal_strengths),
                      \* line 661 clears the figure before anything can fail
                      figure |->
                          IF fault.step = "_plot_simulation_results"
                          THEN UnfinishedFigure
                          ELSE CoverageFigure(signal_strengths),
                      \* line 702 sets the text at the end of the report
                      analysis |->
                          IF fault.step \in {"_plot_simulation_results",
                                             "_generate_analysis_report"}
                          THEN analysis_display
                          ELSE report,
                      \* line 708 clears the CDF figure before anything can fail
                      cdf |->
                          IF fault.step \in {"_plot_simulation_results",
                                             "_generate_analysis_report"}
                          THEN cdf_figure
                          ELSE IF cdf_raised # "none"
                          THEN unfinished_cdf_figure
                          ELSE cdf,
                      status |->
                          read \o << "creating_grid", "computing", "plotting" >>
                          \o (IF fault.step = "_plot_simulation_results"
                              THEN << >> ELSE << "reporting" >>)
                          \o (IF raised = "none" THEN << "done" >>
                              ELSE failed(raised)),
                      boxes |->
                          info \o (IF raised = "none" THEN << >>
                                   ELSE << except_box(raised) >>)]
    IN  [fault \in Faults |-> effect(fault)]

\* the effect of run_simulation on the inputs w when the environment does fault
run_simulation_effect(w, fault) ==
    run_simulation_effects(w)[fault]

\* lines 624-656
run_simulation ==
    /\ handler # "no_app"
    /\ \E effects \in {run_simulation_effects(param_inputs_widgets)} :
          \E fault \in Faults :
             /\ current_simulation_results' = effects[fault].results
             /\ figure' = effects[fault].figure
             /\ analysis_display' = effects[fault].analysis
             /\ cdf_figure' = effects[fault].cdf
             /\ status_bar' = effects[fault].status
             /\ message_boxes' = effects[fault].boxes
    /\ handler' = "run_simulation"
    /\ saved_figure' = NoFile
    /\ UNCHANGED param_inputs_widgets
    /\ UNCHANGED << callVars, gridVars >>
    /\ UNCHANGED otherVars

\* lines 602-621
reset_parameters ==
    /\ handler # "no_app"
    /\ param_inputs_widgets' = reset_widgets(param_inputs_widgets)
    /\ status_bar' = << "reset" >>
    /\ analysis_display' = initial_html
    /\ cdf_figure' = empty_cdf_figure
    /\ handler' = "reset_parameters"
    /\ message_boxes' = NoOutput
    /\ saved_figure' = NoFile
    /\ UNCHANGED << current_simulation_results, figure >>
    /\ UNCHANGED << callVars, gridVars >>
    /\ UNCHANGED otherVars

\* a slip: the dialog opened whether or not a field exists
nothing_to_export_never(results) ==
    FALSE

\* line 729: current_simulation_results is None
nothing_to_export(results) ==
    results.is_none

\* lines 727-734: the user, in the dialog, cancels or names a file, and the
\* file is written or writing it fails
export_main_plot ==
    /\ handler # "no_app"
    /\ IF nothing_to_export(current_simulation_results)
       THEN /\ message_boxes' = << "information:nothing_to_export" >>
            /\ status_bar' = NoOutput
            /\ saved_figure' = NoFile
       ELSE \E dialog \in {"cancelled", "saved", "failed"} :
               /\ message_boxes' = IF dialog = "failed"
                                   THEN << "critical:export_failed" >>
                                   ELSE NoOutput
               /\ status_bar' = CASE dialog = "saved" -> << "saved" >>
                                  [] dialog = "failed" -> << "export_failed" >>
                                  [] OTHER -> NoOutput
               /\ saved_figure' = IF dialog = "saved"
                                  THEN [saved |-> TRUE, figure |-> figure]
                                  ELSE NoFile
    /\ handler' = "export_main_plot"
    /\ UNCHANGED << param_inputs_widgets, current_simulation_results, figure,
                    analysis_display, cdf_figure >>
    /\ UNCHANGED << callVars, gridVars >>
    /\ UNCHANGED otherVars

-----------------------------------------------------------------------------
(* SpecGrid: one call of create_grid on each of the sampled arguments *)

IdleSim ==
    /\ sim_args = NoArgs
    /\ sim_pc = "idle"
    /\ sim_result = << >>

IdleStats ==
    /\ stats_field = << >>
    /\ stats_pc = "idle"
    /\ stats_report = initial_html
    /\ stats_cdf = empty_cdf_figure

IdleCell ==
    /\ cell_row = 1
    /\ cell_col = 1
    /\ cell_pc = "idle"
    /\ cell_value = 0

IdleOthers == IdleSim /\ IdleStats /\ IdleCell

IdleCall ==
    /\ call_distance = 0
    /\ call_power = 0
    /\ call_frequency = 0
    /\ call_gain = 0
    /\ call_env = "indoor"
    /\ call_pc = "idle"
    /\ call_result = NoResult

IdleGrid ==
    /\ grid_x_min = 0
    /\ grid_x_max = 0
    /\ grid_y_min = 0
    /\ grid_y_max = 0
    /\ grid_step = 0
    /\ grid_pc = "idle"
    /\ grid_result = NoResult

InitGridCall ==
    /\ grid_x_min \in GridCoordinates
    /\ grid_x_max \in GridCoordinates
    /\ grid_y_min \in GridCoordinates
    /\ grid_y_max \in GridCoordinates
    /\ grid_step \in GridSteps
    /\ grid_pc = "call"
    /\ grid_result = NoResult

\* the call raises at line 74 or returns at line 80
CallCreateGrid ==
    /\ grid_pc = "call"
    /\ LET r == create_grid(grid_x_min, grid_x_max, grid_y_min, grid_y_max,
                            grid_step)
       IN  /\ grid_result' = r
           /\ grid_pc' = IF r.raised = "none" THEN "returned" ELSE "raised"
    /\ UNCHANGED << grid_x_min, grid_x_max, grid_y_min, grid_y_max, grid_step >>
    /\ UNCHANGED << callVars, appVars >>
    /\ UNCHANGED otherVars

NextGrid ==
    CallCreateGrid

InitGrid ==
    /\ IdleCall
    /\ InitGridCall
    /\ IdleApp
    /\ IdleOthers

SpecGrid == InitGrid /\ [][NextGrid]_vars

-----------------------------------------------------------------------------
(* Spec: create_grid called alone, or the application and its slots *)

Init ==
    \/ InitGrid
    \/ (IdleCall /\ IdleGrid /\ InitApp /\ IdleOthers)

Next ==
    \/ CallCreateGrid
    \/ SetParameter
    \/ run_simulation
    \/ reset_parameters
    \/ export_main_plot

Spec == Init /\ [][Next]_vars

-----------------------------------------------------------------------------
(* SpecModel: one call of signal_strength_model on each of the sampled      *)
(* arguments                                                               *)

InitModel ==
    /\ IdleGrid
    /\ IdleApp
    /\ IdleOthers
    /\ call_distance \in Distances
    /\ call_power \in Powers
    /\ call_frequency \in Frequencies
    /\ call_gain \in Gains
    /\ call_env \in Environments
    /\ call_pc = "call"
    /\ call_result = NoResult

\* the call returns at line 34
ReturnDistanceSentinel ==
    /\ call_pc = "call"
    /\ call_distance <= 0
    /\ call_result' = signal_strength_model(call_distance, call_power,
                          call_frequency, call_gain, call_env)
    /\ call_pc' = "returned"
    /\ UNCHANGED << call_distance, call_power, call_frequency, call_gain, call_env >>
    /\ UNCHANGED << gridVars, appVars >>
    /\ UNCHANGED otherVars

\* the call returns at line 37
ReturnFrequencySentinel ==
    /\ call_pc = "call"
    /\ call_distance > 0
    /\ call_frequency <= 0
    /\ call_result' = signal_strength_model(call_distance, call_power,
                          call_frequency, call_gain, call_env)
    /\ call_pc' = "returned"
    /\ UNCHANGED << call_distance, call_power, call_frequency, call_gain, call_env >>
    /\ UNCHANGED << gridVars, appVars >>
    /\ UNCHANGED otherVars

\* the call returns at line 69
ReturnReceivedPower ==
    /\ call_pc = "call"
    /\ call_distance > 0
    /\ call_frequency > 0
    /\ call_result' = signal_strength_model(call_distance, call_power,
                          call_frequency, call_gain, call_env)
    /\ call_pc' = "returned"
    /\ UNCHANGED << call_distance, call_power, call_frequency, call_gain, call_env >>
    /\ UNCHANGED << gridVars, appVars >>
    /\ UNCHANGED otherVars

NextModel ==
    \/ ReturnDistanceSentinel
    \/ ReturnFrequencySentinel
    \/ ReturnReceivedPower

SpecModel == InitModel /\ [][NextModel]_vars

Returned == call_pc = "returned"

-----------------------------------------------------------------------------
(* SpecField: one call of simulate_signal_strength on the grid of           *)
(* create_grid, for each of the sampled areas and transmitters             *)

\* metres: bounds of the area, which give grids of 1 x 1 to 3 x 3 cells
FieldCoordinates == {0, 10, 20}

\* metres: a base station on a grid point (the first cell of some grids) and
\* between grid points
BaseStationCoordinates == {0, 5}

\* MHz: an invalid frequency and the default one
FieldFrequencies == {0, 2600}

InitSimCall ==
    /\ sim_args \in
          [x_min : FieldCoordinates, x_max : FieldCoordinates,
           y_min : FieldCoordinates, y_max : FieldCoordinates, step : {10},
           bs_x : BaseStationCoordinates, bs_y : BaseStationCoordinates,
           transmit_power_dbm : {40000}, transmit_power_is_int : BOOLEAN,
           frequency_mhz : FieldFrequencies, antenna_gain_dbi : {17000},
           environment_type : {"urban_dense", "rural_macro"}]
    /\ sim_pc = "call"
    /\ sim_result = << >>

\* the grid of the call
sim_grid ==
    create_grid(sim_args.x_min, sim_args.x_max, sim_args.y_min, sim_args.y_max,
                sim_args.step)

\* the call returns at line 101
CallSimulateSignalStrength ==
    /\ sim_pc = "call"
    /\ sim_result' =
          simulate_signal_strength(sim_grid.xx, sim_grid.yy,
              sim_args.bs_x, sim_args.bs_y, sim_args.transmit_power_dbm,
              sim_args.transmit_power_is_int, sim_args.frequency_mhz,
              sim_args.antenna_gain_dbi, sim_args.environment_type)
    /\ sim_pc' = "returned"
    /\ UNCHANGED sim_args
    /\ UNCHANGED << callVars, gridVars, appVars, statsVars, cellVars >>

NextField ==
    CallSimulateSignalStrength

InitField ==
    /\ IdleCall
    /\ IdleGrid
    /\ IdleApp
    /\ IdleStats
    /\ IdleCell
    /\ InitSimCall

SpecField == InitField /\ [][NextField]_vars

Simulated == sim_pc = "returned"

-----------------------------------------------------------------------------
(* Claims on signal_strength_model, under SpecModel *)

FourEnvironments == {"urban_dense", "urban_macro", "suburban", "rural_macro"}

\* C1: a call with distance <= 0 returns exactly transmit_power_dbm - 200,
\* whatever the frequency (<= 0 included), the gain and the environment are.
C1_DistanceSentinel ==
    (Returned /\ call_distance <= 0) => call_result = call_power - 200000

C1_Witness ==
    /\ Returned
    /\ call_distance <= 0
    /\ call_frequency <= 0
    /\ call_env = "indoor"
    /\ call_result = call_power - 200000

\* C2, as stated: a call with frequency_mhz <= 0 returns exactly
\* transmit_power_dbm - 300, whatever the other arguments are.
C2_Original ==
    (Returned /\ call_frequency <= 0) => call_result = call_power - 300000

\* C2, amended: a call with frequency_mhz <= 0 and distance > 0 returns exactly
\* transmit_power_dbm - 300, whatever the gain and the environment are.
C2_FrequencySentinel ==
    (Returned /\ call_frequency <= 0 /\ call_distance > 0)
        => call_result = call_power - 300000

C2_Witness ==
    /\ Returned
    /\ call_frequency <= 0
    /\ call_distance > 0
    /\ call_result = call_power - 300000

\* the clutter term and the coefficient k of the claim C3, per environment
C3_Clutter(env, f, d) ==
    CASE env = "urban_dense" -> 20000 + (f * (log10(d + 100) - 2000)) \div 10000
      [] env = "urban_macro" -> 15000 + (f * (log10(d + 100) - 2000)) \div 20000
      [] env = "suburban" -> 10000
      [] env = "rural_macro" -> 3000

C3_K(env) ==
    CASE env = "urban_dense" -> 18
      [] env = "urban_macro" -> 12
      [] env = "suburban" -> 8
      [] env = "rural_macro" -> 5

C3_FSPL(f, d) ==
    20 * (log10(d) - 2000) + 20 * log10(f) - 27550

C3_Case ==
    /\ Returned
    /\ call_distance > 0
    /\ call_frequency > 0
    /\ call_env \in FourEnvironments

\* C3, as stated: for distance > 0 and frequency > 0 the result is
\* (power + gain) - (FSPL + max(0, clutter + k*log10(max(distance_km, 0.001)))).
C3_Original ==
    C3_Case =>
        call_result =
            (call_power + call_gain)
            - (C3_FSPL(call_frequency, call_distance)
               + Max(0, C3_Clutter(call_env, call_frequency, call_distance)
                        + C3_K(call_env) * (log10(Max(call_distance, 100)) - 5000)))

\* C3, amended: for distance > 0 and frequency > 0 the result is
\* (power + gain) - (FSPL + max(0, clutter + k*log10(distance_km + 0.001))):
\* the argument of the logarithm of the exponent term is distance_km + 0.001.
C3_Formula ==
    C3_Case =>
        call_result =
            (call_power + call_gain)
            - (C3_FSPL(call_frequency, call_distance)
               + Max(0, C3_Clutter(call_env, call_frequency, call_distance)
                        + C3_K(call_env) * (log10(call_distance + 100) - 5000)))

\* a call where the additional loss is not clamped away, at 100 m
C3_Witness ==
    /\ C3_Case
    /\ call_env = "urban_dense"
    /\ call_distance = 10000
    /\ call_result < (call_power + call_gain)
                     - C3_FSPL(call_frequency, call_distance)

\* C4: with power, gain, frequency > 0 and environment fixed, the result does
\* not increase with the distance, over the distances > 0.
C4_Monotone ==
    (Returned /\ call_distance > 0 /\ call_frequency > 0) =>
        \A d2 \in Distances :
            d2 >= call_distance =>
                signal_strength_model(d2, call_power, call_frequency,
                                      call_gain, call_env) <= call_result

C4_Witness ==
    /\ Returned
    /\ call_distance > 0
    /\ call_frequency > 0
    /\ \E d2 \in Distances :
          /\ d2 > call_distance
          /\ signal_strength_model(d2, call_power, call_frequency,
                                   call_gain, call_env) < call_result

\* C5, as stated: at a distance of 100 m to 500 m and a frequency > 0, the
\* additional loss is ordered rural_macro <= suburban <= urban_macro <=
\* urban_dense.
C5_Ordering ==
    (Returned /\ call_frequency > 0
       /\ call_distance >= 10000 /\ call_distance <= 50000) =>
        /\ additional_loss(call_distance, call_frequency, "rural_macro")
             <= additional_loss(call_distance, call_frequency, "suburban")
        /\ additional_loss(call_distance, call_frequency, "suburban")
             <= additional_loss(call_distance, call_frequency, "urban_macro")
        /\ additional_loss(call_distance, call_frequency, "urban_macro")
             <= additional_loss(call_distance, call_frequency, "urban_dense")

\* C6: for distance > 0 and frequency > 0 and every environment value, the
\* additional loss is >= 0: the result never exceeds (power + gain) - FSPL.
C6_NotAboveFreeSpace ==
    (Returned /\ call_distance > 0 /\ call_frequency > 0) =>
        /\ call_result <= (call_power + call_gain)
                          - C3_FSPL(call_frequency, call_distance)
        /\ additional_loss(call_distance, call_frequency, call_env) >= 0

\* a call where the unclamped sum is negative (1 m, urban_dense): the result
\* is the free-space value
C6_Witness ==
    /\ Returned
    /\ call_distance = 100
    /\ call_frequency > 0
    /\ call_env = "urban_dense"
    /\ call_result = (call_power + call_gain)
                     - C3_FSPL(call_frequency, call_distance)

-----------------------------------------------------------------------------
(* Claims on create_grid and on run_simulation, under SpecGrid and Spec *)

GridCalled == grid_pc \in {"raised", "returned"}

GridReturned == grid_pc = "returned"

Ran == handler = "run_simulation"

Last(q) == q[Len(q)]

Contains(q, e) == \E i \in 1..Len(q) : q[i] = e

\* C7: create_grid with step <= 0 raises the invalid-parameter error and
\* returns no grid, for any bounds; and run_simulation with step <= 0 ends
\* before the grid is created and the field evaluated, with the warning shown.
C7_StepRejected ==
    /\ (GridCalled /\ grid_step <= 0) =>
          /\ grid_pc = "raised"
          /\ grid_result.raised = "ValueError"
          /\ grid_result.xx = << >>
          /\ grid_result.yy = << >>
    /\ (Ran /\ param_inputs_widgets.step <= 0) =>
          /\ ~Contains(status_bar, "creating_grid")
          /\ ~Contains(status_bar, "computing")
          /\ Last(status_bar) = "abort:step"
          /\ message_boxes = << "warning:step" >>

\* a run aborted for its step, after a run that stored a field
C7_Witness ==
    /\ Ran
    /\ param_inputs_widgets.step <= 0
    /\ Last(status_bar) = "abort:step"
    /\ ~current_simulation_results.is_none

\* C8: with min < max and a step > 0 that divides max - min, an axis has
\* exactly (max - min)/step + 1 samples, the first min and the last max; and
\* create_grid(0,100,0,100,10) is an 11 x 11 mesh with corners (0,0), (100,100).
C8_ExactDivision ==
    GridReturned =>
        LET xx == grid_result.xx
            yy == grid_result.yy
        IN  /\ (grid_x_min < grid_x_max
                  /\ (grid_x_max - grid_x_min) % grid_step = 0) =>
                  /\ Columns(xx) = (grid_x_max - grid_x_min) \div grid_step + 1
                  /\ xx[1][1] = grid_x_min
                  /\ xx[1][Columns(xx)] = grid_x_max
            /\ (grid_y_min < grid_y_max
                  /\ (grid_y_max - grid_y_min) % grid_step = 0) =>
                  /\ Rows(yy) = (grid_y_max - grid_y_min) \div grid_step + 1
                  /\ yy[1][1] = grid_y_min
                  /\ yy[Rows(yy)][1] = grid_y_max
            /\ (<< grid_x_min, grid_x_max, grid_y_min, grid_y_max, grid_step >>
                  = << 0, 100, 0, 100, 10 >>) =>
                  /\ Rows(xx) = 11 /\ Columns(xx) = 11
                  /\ Rows(yy) = 11 /\ Columns(yy) = 11
                  /\ << xx[1][1], yy[1][1] >> = << 0, 0 >>
                  /\ << xx[11][11], yy[11][11] >> = << 100, 100 >>

C8_Witness ==
    /\ GridReturned
    /\ << grid_x_min, grid_x_max, grid_y_min, grid_y_max, grid_step >>
          = << 0, 100, 0, 100, 10 >>
    /\ Rows(grid_result.xx) = 11
    /\ grid_result.xx[11][11] = 100

\* the number of samples of an axis, by the rule of the claims
SampleCount(min, max, step) ==
    IF min >= max THEN 1 ELSE (max - min) \div step + 1
                               + (IF (max - min) % step = 0 THEN 0 ELSE 1)

\* the run passes every check of run_simulation other than that of equal bounds
C9_RunIsValid ==
    /\ param_inputs_widgets.step > 0
    /\ param_inputs_widgets.frequency > 0
    /\ param_inputs_widgets.x_min <= param_inputs_widgets.x_max
    /\ param_inputs_widgets.y_min <= param_inputs_widgets.y_max

\* C9: with x_min >= x_max (and step > 0) the mesh of create_grid has the one
\* column x_min and as many rows as there are y samples, symmetrically for y,
\* and is 1 x 1 when both collapse; and a run of the simulation whose bounds
\* are equal on an axis (and that passes the other checks: step > 0,
\* frequency > 0, no minimum above its maximum) shows a notice and goes on to
\* create the grid, and when none of its calls fails it evaluates and stores a
\* field of that shape, with the notice and no error.
C9_CollapsedAxis ==
    /\ GridReturned =>
          LET xx == grid_result.xx
              yy == grid_result.yy
          IN  /\ Rows(xx) = Rows(yy)
              /\ \A i \in 1..Rows(xx) : Len(xx[i]) = Len(yy[i])
              /\ grid_x_min >= grid_x_max =>
                    /\ Rows(xx) = SampleCount(grid_y_min, grid_y_max, grid_step)
                    /\ \A i \in 1..Rows(xx) : xx[i] = << grid_x_min >>
              /\ grid_y_min >= grid_y_max =>
                    /\ Rows(yy) = 1
                    /\ Columns(yy) = SampleCount(grid_x_min, grid_x_max, grid_step)
                    /\ \A j \in 1..Columns(yy) : yy[1][j] = grid_y_min
              /\ (grid_x_min >= grid_x_max /\ grid_y_min >= grid_y_max) =>
                    /\ xx = << << grid_x_min >> >>
                    /\ yy = << << grid_y_min >> >>
    /\ (Ran /\ C9_RunIsValid
          /\ (param_inputs_widgets.x_min = param_inputs_widgets.x_max
                \/ param_inputs_widgets.y_min = param_inputs_widgets.y_max)) =>
          LET w == param_inputs_widgets
              f == current_simulation_results
          IN  /\ Head(message_boxes) = "information:range_equal"
              /\ Contains(status_bar, "creating_grid")
              /\ Last(status_bar) \in {"done", "failed:ValueError", "failed:Exception"}
              /\ Last(status_bar) = "done" =>
                    /\ Contains(status_bar, "computing")
                    /\ message_boxes = << "information:range_equal" >>
                    /\ ~f.is_none
                    /\ Rows(f.strengths) = SampleCount(w.y_min, w.y_max, w.step)
                    /\ Columns(f.strengths) = SampleCount(w.x_min, w.x_max, w.step)

\* create_grid called with x_min > x_max and several y samples
C9_Witness ==
    /\ GridReturned
    /\ grid_x_min > grid_x_max
    /\ grid_x_max + grid_step <= grid_x_min
    /\ Rows(grid_result.xx) > 1
    /\ Columns(grid_result.xx) = 1

\* C10: the two arrays have the same shape, (number of y samples) x (number
\* of x samples); cell (i, j) of the x array is the j-th x sample and that of
\* the y array the i-th y sample; every x sample is paired with every y
\* sample exactly once.
C10_Mesh ==
    GridReturned =>
        LET xx == grid_result.xx
            yy == grid_result.yy
            nx == SampleCount(grid_x_min, grid_x_max, grid_step)
            ny == SampleCount(grid_y_min, grid_y_max, grid_step)
            xs(j) == grid_x_min + (j - 1) * grid_step
            ys(i) == grid_y_min + (i - 1) * grid_step
        IN  /\ Rows(xx) = ny /\ Rows(yy) = ny
            /\ \A i \in 1..ny :
                  /\ Len(xx[i]) = nx /\ Len(yy[i]) = nx
                  /\ \A j \in 1..nx : xx[i][j] = xs(j) /\ yy[i][j] = ys(i)
            /\ Cardinality({ << xx[i][j], yy[i][j] >> : i \in 1..ny, j \in 1..nx })
                  = nx * ny

\* a mesh that is not square, with several rows and several columns
C10_Witness ==
    /\ GridReturned
    /\ Rows(grid_result.xx) > 1
    /\ Columns(grid_result.xx) > Rows(grid_result.xx)

-----------------------------------------------------------------------------
(* SpecStats: _generate_analysis_report and then _plot_cdf_results, as in    *)
(* lines 652-653, on each of the sampled fields                            *)

\* thousandths of dBm: the ends of the range of the tx_power input (line 226)
PowerEnds == {10000, 60000}

\* the values lines 34 and 37 return for the powers at the ends of the range
SentinelValues ==
    { distance_sentinel(p) : p \in PowerEnds }
    \cup { frequency_sentinel(p) : p \in PowerEnds }

\* thousandths of dBm: the four thresholds, a value inside each of the three
\* middle tiers' neighbours (-120, -100, -70 dBm), the sentinels, and the
\* floats that are not numbers
StatsValues ==
    {NaN, PosInf, NegInf,
     -120000, poor_rsrp, fair_rsrp, -100000, good_rsrp, excellent_rsrp, -70000}
    \cup SentinelValues

\* the empty field, and the fields of one row of 1 to MaxStatsPoints entries
StatsFields ==
    { << >> } \cup
    UNION { { << row >> : row \in [1..n -> StatsValues] } : n \in 1..MaxStatsPoints }

InitStatsCall ==
    /\ stats_field \in StatsFields
    /\ stats_pc = "call"
    /\ stats_report = initial_html
    /\ stats_cdf = empty_cdf_figure

\* line 652: the report is written
CallGenerateAnalysisReport ==
    /\ stats_pc = "call"
    /\ stats_report' = analysis_report(stats_field, 0)
    /\ stats_pc' = "reported"
    /\ UNCHANGED << stats_field, stats_cdf >>
    /\ UNCHANGED << callVars, gridVars, appVars, simVars, cellVars >>

\* line 653: the CDF is plotted, or line 723 raises
CallPlotCdfResults ==
    /\ stats_pc = "reported"
    /\ stats_cdf' = cdf_plot(stats_field)
    /\ stats_pc' = IF cdf_plot(stats_field).raised = "none"
                   THEN "plotted" ELSE "raised"
    /\ UNCHANGED << stats_field, stats_report >>
    /\ UNCHANGED << callVars, gridVars, appVars, simVars, cellVars >>

NextStats ==
    \/ CallGenerateAnalysisReport
    \/ CallPlotCdfResults

InitStats ==
    /\ IdleCall
    /\ IdleGrid
    /\ IdleApp
    /\ IdleSim
    /\ IdleCell
    /\ InitStatsCall

SpecStats == InitStats /\ [][NextStats]_vars

\* the report of the field was made
Reported == stats_pc \in {"reported", "plotted", "raised"}

\* the call of _plot_cdf_results ended, by a return or an exception
Plotted == stats_pc \in {"plotted", "raised"}

-----------------------------------------------------------------------------
(* SpecExample: the field of the program's default parameters, one cell at  *)
(* a time                                                                  *)

\* lines 216-220: the default parameters of the program, unscaled
example_param_values ==
    [env_type |-> 0, bs_x |-> 0, bs_y |-> 0, tx_power |-> 40000,
     antenna_gain |-> 17000, frequency |-> 2600,
     x_min |-> -500, x_max |-> 500, y_min |-> -500, y_max |-> 500,
     step |-> 10, noise_floor |-> -110000, colormap |-> 0]

\* lines 75-76: the samples of the two axes of the example's grid
example_x ==
    axis_samples(example_param_values.x_min, example_param_values.x_max,
                 example_param_values.step)

example_y ==
    axis_samples(example_param_values.y_min, example_param_values.y_max,
                 example_param_values.step)

\* lines 83-101: the value of the cell at (x, y) of the example's field; the
\* first cell of the grid is off the transmitter, so the field is of floats
example_cell(x, y) ==
    simulate_signal_strength(<< << x >> >>, << << y >> >>,
        example_param_values.bs_x, example_param_values.bs_y,
        example_param_values.tx_power, FALSE,
        example_param_values.frequency, example_param_values.antenna_gain,
        env_type_options[example_param_values.env_type + 1])[1][1]

InitCell ==
    /\ cell_row \in 1..Len(example_y)
    /\ cell_col \in 1..Len(example_x)
    /\ cell_pc = "call"
    /\ cell_value = 0

\* the cell on the transmitter is evaluated: line 34
EvaluateTransmitterCell ==
    /\ cell_pc = "call"
    /\ example_x[cell_col] = example_param_values.bs_x
    /\ example_y[cell_row] = example_param_values.bs_y
    /\ cell_value' = example_cell(example_x[cell_col], example_y[cell_row])
    /\ cell_pc' = "returned"
    /\ UNCHANGED << cell_row, cell_col >>
    /\ UNCHANGED << callVars, gridVars, appVars, simVars, statsVars >>

\* a cell off the transmitter is evaluated: line 69
EvaluateCell ==
    /\ cell_pc = "call"
    /\ \/ example_x[cell_col] # example_param_values.bs_x
       \/ example_y[cell_row] # example_param_values.bs_y
    /\ cell_value' = example_cell(example_x[cell_col], example_y[cell_row])
    /\ cell_pc' = "returned"
    /\ UNCHANGED << cell_row, cell_col >>
    /\ UNCHANGED << callVars, gridVars, appVars, simVars, statsVars >>

NextExample ==
    \/ EvaluateTransmitterCell
    \/ EvaluateCell

InitExample ==
    /\ IdleCall
    /\ IdleGrid
    /\ IdleApp
    /\ IdleSim
    /\ IdleStats
    /\ InitCell

SpecExample == InitExample /\ [][NextExample]_vars

CellEvaluated == cell_pc = "returned"

-----------------------------------------------------------------------------
(* The field of simulate_signal_strength *)

\* d cm is the Euclidean distance of (dx, dy) metres, rounded down
IsEuclidean(d, dx, dy) ==
    /\ d >= 0
    /\ d * d <= 10000 * (dx * dx + dy * dy)
    /\ (d + 1) * (d + 1) > 10000 * (dx * dx + dy * dy)

\* the value the propagation model gives to cell (i, j) of the call's grid
ModelOfCell(i, j) ==
    LET dx == sim_grid.xx[i][j] - sim_args.bs_x
        dy == sim_grid.yy[i][j] - sim_args.bs_y
        d == CHOOSE d \in 0..3000 : IsEuclidean(d, dx, dy)
    IN  signal_strength_model(d, sim_args.transmit_power_dbm,
            sim_args.frequency_mhz, sim_args.antenna_gain_dbi,
            sim_args.environment_type)

\* C11: the field returned by simulate_signal_strength has the shape of the
\* grid, and the value of each cell (i, j) is the propagation model applied to
\* the Euclidean distance from the transmitter to that cell, with the
\* transmitter's power, gain, frequency and environment, whatever the other
\* cells are.
C11_FieldOfGrid ==
    Simulated =>
       /\ Rows(sim_result) = Rows(sim_grid.xx)
       /\ \A i \in 1..Rows(sim_result) :
             /\ Len(sim_result[i]) = Len(sim_grid.xx[i])
             /\ \A j \in 1..Len(sim_result[i]) :
                   sim_result[i][j] = ModelOfCell(i, j)

\* the cell (i, j) of the call's grid is the point of the transmitter
OnTransmitter(i, j) ==
    /\ sim_grid.xx[i][j] = sim_args.bs_x
    /\ sim_grid.yy[i][j] = sim_args.bs_y

\* C12: for every grid and transmitter, with the transmitter on a grid point
\* and with frequency_mhz <= 0, simulate_signal_strength returns a field with
\* a value in every cell of the grid; every value is a finite number; a cell
\* at distance 0 holds transmit_power_dbm - 200 and, when frequency_mhz <= 0,
\* every other cell holds transmit_power_dbm - 300.
C12_CompleteFiniteField ==
    Simulated =>
       /\ Rows(sim_result) = Rows(sim_grid.xx)
       /\ \A i \in 1..Rows(sim_result) :
             /\ Len(sim_result[i]) = Len(sim_grid.xx[i])
             /\ \A j \in 1..Len(sim_result[i]) :
                   /\ sim_result[i][j] \in Int
                   /\ isfinite(sim_result[i][j])
                   /\ OnTransmitter(i, j) =>
                         sim_result[i][j] = sim_args.transmit_power_dbm - 200000
                   /\ (~OnTransmitter(i, j) /\ sim_args.frequency_mhz <= 0) =>
                         sim_result[i][j] = sim_args.transmit_power_dbm - 300000

\* a field with a cell on the transmitter and a cell off it, of a frequency
\* that is not positive
C12_Witness ==
    /\ Simulated
    /\ sim_args.frequency_mhz <= 0
    /\ \E i \in 1..Rows(sim_result) : \E j \in 1..Len(sim_result[i]) :
          OnTransmitter(i, j)
    /\ \E i \in 1..Rows(sim_result) : \E j \in 1..Len(sim_result[i]) :
          ~OnTransmitter(i, j)

-----------------------------------------------------------------------------
(* The checks of run_simulation *)

AbortStatuses == {"abort:step", "abort:frequency", "abort:range", "abort:grid"}

\* the run shown in the status bar was stopped by a check
Aborted == \E i \in 1..Len(status_bar) : status_bar[i] \in AbortStatuses

\* a status of the effect e tells that a check stopped the run
EffectAborted(e) == \E i \in 1..Len(e.status) : e.status[i] \in AbortStatuses

\* frequencies that the frequency input never holds
NonPositiveFrequencies == {-100, 0}

\* the inputs with the frequency f and a positive step
WithFrequency(f) ==
    [param_inputs_widgets EXCEPT !.frequency = f, !.step = 10]

\* C13 as stated: only a step <= 0 stops a simulation run; a run with
\* step > 0 and frequency <= 0 is not stopped but completes with a field of
\* sentinel values; no other check of the ranges is made.
C13_Original ==
    /\ (Ran /\ Aborted) => param_inputs_widgets.step <= 0
    /\ handler # "no_app" =>
          \A f \in NonPositiveFrequencies :
             LET e == run_simulation_effect(WithFrequency(f), NoFault)
             IN  /\ ~EffectAborted(e)
                 /\ Last(e.status) = "done"

\* C13, amended: a run is stopped by a check exactly when step <= 0,
\* frequency <= 0 or a minimum is above its maximum on an axis; it then shows
\* one warning, creates no grid and leaves the last field, the figures and the
\* report as they were.  A frequency <= 0, which the frequency input never
\* holds, stops the run in the same way.  A run that no check stops and whose
\* calls all succeed ends with "done".
C13_Validation ==
    /\ Ran =>
          LET w == param_inputs_widgets
          IN  /\ Aborted <=>
                    \/ w.step <= 0
                    \/ w.frequency <= 0
                    \/ w.x_min > w.x_max
                    \/ w.y_min > w.y_max
              /\ Aborted =>
                    /\ Len(message_boxes) = 1
                    /\ message_boxes[1] \in
                          {"warning:step", "warning:frequency", "warning:range"}
                    /\ ~Contains(status_bar, "creating_grid")
                    /\ Last(status_bar) =
                          IF w.step <= 0 THEN "abort:step" ELSE "abort:range"
              /\ ~Aborted =>
                    Last(status_bar) \in
                       {"done", "failed:ValueError", "failed:Exception"}
    /\ handler # "no_app" =>
          /\ \A effects \in {run_simulation_effects(param_inputs_widgets)} :
                /\ \A fault \in Faults :
                      EffectAborted(effects[fault]) =>
                         /\ effects[fault].results = current_simulation_results
                         /\ effects[fault].figure = figure
                         /\ effects[fault].analysis = analysis_display
                         /\ effects[fault].cdf = cdf_figure
                /\ ~EffectAborted(effects[NoFault]) =>
                      Last(effects[NoFault].status) = "done"
          /\ \A f \in NonPositiveFrequencies :
                LET e == run_simulation_effect(WithFrequency(f), NoFault)
                IN  /\ Last(e.status) = "abort:frequency"
                    /\ e.boxes = << "warning:frequency" >>
                    /\ e.results = current_simulation_results

\* a run with a positive step stopped for a minimum above its maximum
C13_Witness ==
    /\ Ran
    /\ param_inputs_widgets.step > 0
    /\ param_inputs_widgets.x_min > param_inputs_widgets.x_max
    /\ Last(status_bar) = "abort:range"
    /\ message_boxes = << "warning:range" >>

-----------------------------------------------------------------------------
(* The statistics of a field *)

\* the entries of the field, and those that are finite numbers
StatsEntries == flatten(stats_field)

FiniteValues == SelectSeq(StatsEntries, isfinite)

\* the tier of a finite value v, in thousandths of dBm
InTier(v, t) ==
    CASE t = "excellent" -> v >= -80000
      [] t = "good"      -> -95000 <= v /\ v < -80000
      [] t = "fair"      -> -105000 <= v /\ v < -95000
      [] t = "marginal"  -> -115000 <= v /\ v < -105000
      [] t = "poor"      -> v < -115000

\* how many of the finite values are in tier t
FiniteInTier(t) ==
    Cardinality({ k \in 1..Len(FiniteValues) : InTier(FiniteValues[k], t) })

\* C14: in the report of a field, the count of each tier is the number of
\* finite values v of the field in that tier: excellent v >= -80, good
\* -95 <= v < -80, fair -105 <= v < -95, marginal -115 <= v < -105, poor
\* v < -115 (a value on a threshold is in the higher tier); the five counts
\* sum to the number of finite values.
C14_TierPartition ==
    (Reported /\ stats_report.kind = "report") =>
       /\ \A t \in Tiers : stats_report.cat_counts[t] = FiniteInTier(t)
       /\ stats_report.cat_counts.excellent + stats_report.cat_counts.good
             + stats_report.cat_counts.fair + stats_report.cat_counts.marginal
             + stats_report.cat_counts.poor = Len(FiniteValues)

\* C15: for a field with a finite value, the percentage of each tier in the
\* report is its count divided by the number of finite entries, times 100,
\* and the five percentages sum to 100; for a field without a finite value
\* the five percentages are 0.
C15_Percentages ==
    Reported =>
       LET p == stats_report.percentages
           n == Len(FiniteValues)
       IN  /\ n >= 1 =>
                /\ stats_report.kind = "report"
                /\ \A t \in Tiers :
                      p[t].num * n = stats_report.cat_counts[t] * 100 * p[t].den
                /\ \E den \in 1..Len(StatsEntries) :
                      /\ \A t \in Tiers : p[t].den = den
                      /\ p.excellent.num + p.good.num + p.fair.num
                            + p.marginal.num + p.poor.num = 100 * den
           /\ n = 0 => \A t \in Tiers : p[t].num = 0

\* C16: for a field without a finite value (empty, or with only NaN and
\* infinite entries) neither call raises, the report shows no maximum,
\* minimum or mean (it is the initial text) and the CDF figure shows the text
\* "no data".
C16_NoData ==
    (Reported /\ Len(FiniteValues) = 0) =>
       /\ stats_report.kind = "initial"
       /\ stats_pc # "raised"
       /\ stats_pc = "plotted" => stats_cdf.kind = "no_data"

\* q is in ascending order
Ascending(q) == \A k \in 1..(Len(q) - 1) : q[k] <= q[k + 1]

\* q and r have the same values, each as many times
SameValues(q, r) ==
    /\ Len(q) = Len(r)
    /\ \A v \in { q[k] : k \in 1..Len(q) } \cup { r[k] : k \in 1..Len(r) } :
          Cardinality({ k \in 1..Len(q) : q[k] = v })
             = Cardinality({ k \in 1..Len(r) : r[k] = v })

\* C17: the CDF of a field with N >= 1 finite values lists those N values
\* in ascending order and gives the value of rank r (r = 0 for the smallest)
\* the probability r / (N - 1) when N > 1 and 0 when N = 1: the
\* probabilities do not decrease, the smallest value has 0 and, when N > 1,
\* the largest has 1.
C17_EmpiricalCdf ==
    (Plotted /\ Len(FiniteValues) >= 1) =>
       LET n == Len(FiniteValues)
           y == stats_cdf.yvals
       IN  /\ stats_pc = "plotted"
           /\ stats_cdf.kind = "cdf"
           /\ SameValues(stats_cdf.sorted_data, FiniteValues)
           /\ Ascending(stats_cdf.sorted_data)
           /\ Len(y) = n
           /\ \A r \in 1..n :
                 IF n > 1
                 THEN y[r].num * (n - 1) = (r - 1) * y[r].den
                 ELSE y[r].num = 0
           /\ \A r \in 1..(n - 1) : y[r].num * y[r + 1].den <= y[r + 1].num * y[r].den
           /\ y[1].num = 0
           /\ n > 1 => y[n].num = y[n].den

\* the thresholds of the CDF, in thousandths of dBm
CdfThresholds == {-115000, -105000, -95000, -80000}

\* the entries of the field that are not NaN
ValidValues == SelectSeq(StatsEntries, not_nan)

\* how many of the values of q are at or below t
AtOrBelow(q, t) == Cardinality({ k \in 1..Len(q) : q[k] <= t })

\* C18 as stated: for every field with a finite value and each of the
\* thresholds -115, -105, -95 and -80 dBm, the CDF step computes the fraction
\* of the N finite values that are at or below the threshold, wherever the
\* threshold lies relative to the smallest and the largest value.
C18_Original ==
    (Plotted /\ Len(FiniteValues) >= 1) =>
       \A t \in CdfThresholds :
          \E a \in stats_cdf.annotations :
             /\ a.threshold = t
             /\ a.num * Len(FiniteValues) = AtOrBelow(FiniteValues, t) * a.den

\* C18, amended: the CDF step computes a fraction for exactly those of the
\* thresholds -115, -105, -95 and -80 dBm that lie strictly between the
\* smallest and the largest entry that is not NaN, and for no other; the
\* fraction is the number of such entries at or below the threshold divided
\* by their number N.
C18_Annotations ==
    (Plotted /\ Len(ValidValues) >= 1) =>
       LET n == Len(ValidValues)
           inside(t) == /\ \E k \in 1..n : ValidValues[k] < t
                        /\ \E k \in 1..n : ValidValues[k] > t
       IN  /\ { a.threshold : a \in stats_cdf.annotations }
                 = { t \in CdfThresholds : inside(t) }
           /\ \A a \in stats_cdf.annotations :
                 /\ a.num = AtOrBelow(ValidValues, a.threshold)
                 /\ a.den = n
           /\ Cardinality(stats_cdf.annotations)
                 = Cardinality({ t \in CdfThresholds : inside(t) })

\* a CDF of finite values with a threshold between them and a threshold
\* outside them
C18_Witness ==
    /\ stats_pc = "plotted"
    /\ Len(FiniteValues) = Len(StatsEntries)
    /\ \E a \in stats_cdf.annotations : a.threshold = -105000 /\ a.num >= 1
    /\ \A a \in stats_cdf.annotations : a.threshold # -80000

-----------------------------------------------------------------------------
(* The example: transmitter at (0, 0), grid [-500, 500] x [-500, 500] with   *)
(* step 10, 40 dBm, 17 dBi, 2600 MHz, urban_dense                           *)

RECURSIVE gcd(_, _)
gcd(a, b) == IF b = 0 THEN a ELSE gcd(b, a % b)

Abs(a) == IF a >= 0 THEN a ELSE -a

\* the position of the evaluated cell, in steps of the grid from the origin
CellX == example_x[cell_col] \div 10

CellY == example_y[cell_row] \div 10

\* the cells of the grid are at (10 * a, 10 * b), a and b in -50..50; those
\* on the ray from the origin through the evaluated cell are the multiples
\* m >= 0 of its direction (CellX, CellY) / g that are on the grid
RayG == gcd(Abs(CellX), Abs(CellY))

RayMultiples ==
    { m \in 0..50 : /\ Abs(m * (CellX \div RayG)) <= 50
                    /\ Abs(m * (CellY \div RayG)) <= 50 }

RayCell(m) ==
    example_cell(10 * m * (CellX \div RayG), 10 * m * (CellY \div RayG))

\* the value of the four cells next to the transmitter
NextToTransmitter == example_cell(10, 0)

\* C19 as stated: the maximum of the example's field is at or next to the
\* transmitter cell, and the field strictly decreases with the radial
\* distance along any ray from the origin, the origin cell included.
C19_Original ==
    (CellEvaluated /\ RayG > 0) =>
       /\ cell_value <= NextToTransmitter
       /\ \A m \in RayMultiples :
             /\ m < RayG => RayCell(m) > cell_value
             /\ m > RayG => RayCell(m) < cell_value

\* C19, amended: the maximum of the example's field is at the four cells next
\* to the transmitter cell, and the field strictly decreases with the radial
\* distance along any ray from the origin over the cells other than the
\* origin cell; the origin cell holds 40 - 200 = -160 dBm, which is below
\* every other cell.
C19_RadialDecrease ==
    CellEvaluated =>
       /\ cell_value <= NextToTransmitter
       /\ RayG = 0 => cell_value = -160000
       /\ RayG > 0 =>
             /\ cell_value > -160000
             /\ (Abs(CellX) + Abs(CellY) = 1) => cell_value = NextToTransmitter
             /\ \A m \in RayMultiples \ {0} :
                   /\ m < RayG => RayCell(m) > cell_value
                   /\ m > RayG => RayCell(m) < cell_value

\* the cell at (300, 400), with cells of its ray nearer and farther
C19_Witness ==
    /\ CellEvaluated
    /\ CellX = 30
    /\ CellY = 40
    /\ RayCell(1) > cell_value
    /\ RayCell(12) < cell_value
    /\ 12 \in RayMultiples

-----------------------------------------------------------------------------
(* The field of the last run *)

\* C20: current_simulation_results is replaced only by a run that completes:
\* a step that changes it is a run of the simulation that ends with its
\* results shown, so a run stopped by a check or failing in the creation of
\* the grid, the evaluation, the plot, the report or the CDF leaves the
\* previous field in place.
C20_ReplacedOnCompletion ==
    [][current_simulation_results' # current_simulation_results =>
          /\ handler' = "run_simulation"
          /\ Last(status_bar') = "done"]_vars

-----------------------------------------------------------------------------
(* The sentinels in the report *)

\* the sentinels tx - 200 dBm and tx - 300 dBm of the powers 10 and 60 dBm
\* that the tx_power input allows, in thousandths of dBm
InterfaceSentinels == {-190000, -140000, -290000, -240000}

\* how many entries of the field are sentinels
SentinelEntries ==
    Cardinality({ k \in 1..Len(StatsEntries) : StatsEntries[k] \in InterfaceSentinels })

\* C21: in the report of a field, every cell holding transmit_power_dbm - 200
\* or transmit_power_dbm - 300, for the powers 10 to 60 dBm the interface
\* allows, is counted in the poor tier (< -115 dBm) and in no other tier: a
\* field of sentinels only has all its cells in the poor tier, and in any
\* field the poor tier has at least the sentinel cells and the other four
\* tiers together at most the other cells.
C21_SentinelsArePoor ==
    (Reported /\ stats_report.kind = "report") =>
       LET c == stats_report.cat_counts
           others == c.excellent + c.good + c.fair + c.marginal
       IN  /\ \A p \in 10..60 :
                /\ p * 1000 - 200000 < -115000
                /\ p * 1000 - 300000 < -115000
           /\ c.poor >= SentinelEntries
           /\ others <= Len(StatsEntries) - SentinelEntries
           /\ SentinelEntries = Len(StatsEntries) =>
                 /\ c.poor = Len(StatsEntries)
                 /\ others = 0

\* the report of a field with the sentinel of the distance for 60 dBm, the
\* sentinel of the frequency for 10 dBm and a value that is no sentinel
C21_Witness ==
    /\ Reported
    /\ stats_report.kind = "report"
    /\ \E k \in 1..Len(StatsEntries) : StatsEntries[k] = -140000
    /\ \E k \in 1..Len(StatsEntries) : StatsEntries[k] = -290000
    /\ \E k \in 1..Len(StatsEntries) : StatsEntries[k] = -70000
    /\ stats_report.cat_counts.poor = 2
    /\ stats_report.cat_counts.excellent = 1

-----------------------------------------------------------------------------
(* Runs are functions of their inputs *)

\* the field of the inputs w, as a function of w alone
FieldOf(w) ==
    LET grid == create_grid(w.x_min, w.x_max, w.y_min, w.y_max, w.step)
    IN  simulate_signal_strength(grid.xx, grid.yy, w.bs_x, w.bs_y,
            w.tx_power, FALSE, w.frequency, w.antenna_gain,
            env_type_options[w.env_type + 1])

\* the area of the grid of the inputs w
AreaOf(w) ==
    LET grid == create_grid(w.x_min, w.x_max, w.y_min, w.y_max, w.step)
    IN  total_area_sqm(grid.xx, grid.yy, w.step)

\* the inputs that pass the checks of a run
ValidInputs ==
    { w \in [env_type : WidgetValues.env_type, bs_x : WidgetValues.bs_x,
             bs_y : WidgetValues.bs_y, tx_power : WidgetValues.tx_power,
             antenna_gain : WidgetValues.antenna_gain,
             frequency : WidgetValues.frequency,
             x_min : WidgetValues.x_min, x_max : WidgetValues.x_max,
             y_min : WidgetValues.y_min, y_max : WidgetValues.y_max,
             step : WidgetValues.step,
             noise_floor : WidgetValues.noise_floor,
             colormap : WidgetValues.colormap] :
          w.step > 0 /\ w.x_min <= w.x_max /\ w.y_min <= w.y_max }

\* the fields that runs produce
RunFields == { FieldOf(w) : w \in ValidInputs }

\* C22: the field that a run evaluates, and the report and the CDF of a run
\* that completes, are those of its inputs alone (transmitter parameters,
\* bounds and step), whatever runs, resets and exports came before; and the
\* field kept from an earlier run is at every moment exactly a field that a
\* run produced, not one that a later run has changed.
C22_Deterministic ==
    handler # "no_app" =>
       /\ \/ current_simulation_results.is_none
          \/ current_simulation_results.strengths \in RunFields
       /\ (Ran /\ Contains(status_bar, "plotting")) =>
             current_simulation_results =
                [is_none |-> FALSE, strengths |-> FieldOf(param_inputs_widgets)]
       /\ (Ran /\ Last(status_bar) = "done") =>
             /\ analysis_display =
                   analysis_report(FieldOf(param_inputs_widgets),
                                   AreaOf(param_inputs_widgets))
             /\ cdf_figure = cdf_plot(FieldOf(param_inputs_widgets))
             /\ figure.strengths = FieldOf(param_inputs_widgets)

\* a completed run on inputs that were changed twice since the start
C22_Witness ==
    /\ Ran
    /\ Last(status_bar) = "done"
    /\ param_inputs_widgets.env_type = 3
    /\ param_inputs_widgets.x_max = param_inputs_widgets.x_min
    /\ current_simulation_results.strengths = FieldOf(param_inputs_widgets)

-----------------------------------------------------------------------------
(* The samples of an axis *)

\* the samples a start at min, go up by step and stop at the first one >= max
StopsAtFirstBeyond(a, min, max, step) ==
    /\ Len(a) >= 2
    /\ a[1] = min
    /\ \A i \in 1..(Len(a) - 1) : a[i + 1] - a[i] = step
    /\ \A i \in 1..(Len(a) - 1) : a[i] < max
    /\ a[Len(a)] >= max
    /\ a[Len(a)] < max + step
    /\ Cardinality({ i \in 1..Len(a) : a[i] > max }) <= 1
    /\ (max - min) % step = 0 =>
          /\ a[Len(a)] = max
          /\ { i \in 1..Len(a) : a[i] > max } = {}
    /\ (max - min) % step # 0 =>
          Cardinality({ i \in 1..Len(a) : a[i] > max }) = 1

\* C23: for integers min < max and step > 0, each axis of create_grid starts
\* at min, has consecutive samples exactly step apart and ends at the first
\* sample >= max: the last one is in [max, max + step), at most one sample
\* is beyond max, and none is when step divides max - min.
C23_AxisEnds ==
    GridReturned =>
       /\ grid_x_min < grid_x_max =>
             StopsAtFirstBeyond(grid_result.xx[1], grid_x_min, grid_x_max,
                                grid_step)
       /\ grid_y_min < grid_y_max =>
             StopsAtFirstBeyond([i \in 1..Rows(grid_result.yy) |->
                                     grid_result.yy[i][1]],
                                grid_y_min, grid_y_max, grid_step)

\* an axis from -10 to 10 by steps of 3 ends at 11, one sample beyond 10
C23_Witness ==
    /\ GridReturned
    /\ << grid_x_min, grid_x_max, grid_step >> = << -10, 10, 3 >>
    /\ Columns(grid_result.xx) = 8
    /\ grid_result.xx[1][7] = 8
    /\ grid_result.xx[1][8] = 11

-----------------------------------------------------------------------------
(* Export needs a field *)

Exported == handler = "export_main_plot"

\* C24: in every reachable state an export opens the dialog and writes a
\* file only if a field is stored, and a field is stored only by a run that
\* passed its checks and evaluated the field; without one, also after runs
\* that their checks all stopped, an export shows the notice and writes
\* nothing.
C24_ExportNeedsField ==
    /\ [](handler # "no_app" =>
            /\ saved_figure.saved =>
                  Exported /\ ~current_simulation_results.is_none
            /\ (Exported /\ current_simulation_results.is_none) =>
                  /\ message_boxes = << "information:nothing_to_export" >>
                  /\ saved_figure = NoFile
                  /\ status_bar = NoOutput
            /\ (Exported /\ ~current_simulation_results.is_none) =>
                  ~Contains(message_boxes, "information:nothing_to_export"))
    /\ [][/\ (current_simulation_results.is_none
                /\ ~current_simulation_results'.is_none) =>
                /\ handler' = "run_simulation"
                /\ Contains(status_bar', "computing")
                /\ ~Aborted'
                /\ param_inputs_widgets.step > 0
                /\ ~range_is_invalid(param_inputs_widgets.x_min,
                                     param_inputs_widgets.x_max,
                                     param_inputs_widgets.y_min,
                                     param_inputs_widgets.y_max)
          /\ (handler' = "run_simulation" /\ Aborted') =>
                current_simulation_results' = current_simulation_results
       ]_vars

\* an export that wrote the figure of a run to a file
C24_Witness ==
    /\ Exported
    /\ saved_figure.saved
    /\ ~current_simulation_results.is_none
    /\ saved_figure.figure = figure
    /\ status_bar = << "saved" >>

-----------------------------------------------------------------------------
(* SpecReset: the inputs changed at will, then reset, then the plot exported *)

\* the values given to each input before a reset: its default and another
\* value of its range (lines 226-228, 280-281 and 294)
ResetValues ==
    [env_type |-> {0, 3}, bs_x |-> {0, 10}, bs_y |-> {0, -10},
     tx_power |-> {40000, 25500}, antenna_gain |-> {17000, 500},
     frequency |-> {2600, 600},
     x_min |-> {-AreaBound, 0}, x_max |-> {AreaBound, 0},
     y_min |-> {-AreaBound, 0}, y_max |-> {AreaBound, 0},
     step |-> {10, 1}, noise_floor |-> {-110000, -90000},
     colormap |-> {0, 3}]

\* the application after __init__, or after __init__ and one completed run
\* on the default inputs
InitReset ==
    /\ IdleCall
    /\ IdleGrid
    /\ IdleOthers
    /\ \/ InitApp
       \/ \E e \in {run_simulation_effects(widgets(default_param_values))[NoFault]} :
             /\ param_inputs_widgets = widgets(default_param_values)
             /\ current_simulation_results = e.results
             /\ figure = e.figure
             /\ analysis_display = e.analysis
             /\ cdf_figure = e.cdf
             /\ handler = "run_simulation"
             /\ status_bar = e.status
             /\ message_boxes = e.boxes
             /\ saved_figure = NoFile

\* the user changes the value of one input, by its box or by its slider
ChangeInput ==
    /\ handler # "no_app"
    /\ \E key \in DOMAIN ResetValues :
          \E value \in ResetValues[key] :
             /\ value # param_inputs_widgets[key]
             /\ param_inputs_widgets' =
                    set_widget(param_inputs_widgets, key, value)
    /\ handler' = "valueChanged"
    /\ status_bar' = NoOutput
    /\ message_boxes' = NoOutput
    /\ saved_figure' = NoFile
    /\ UNCHANGED << current_simulation_results, figure, analysis_display,
                    cdf_figure >>
    /\ UNCHANGED << callVars, gridVars >>
    /\ UNCHANGED otherVars

NextReset ==
    \/ ChangeInput
    \/ reset_parameters
    \/ export_main_plot

SpecReset == InitReset /\ [][NextReset]_vars

WasReset == handler = "reset_parameters"

\* C25: reset_parameters sets every input (environment index, positions,
\* power, gain, frequency, noise floor, bounds, step, colormap) and every
\* slider back to its default and clears the analysis text and the CDF plot,
\* but leaves current_simulation_results and the coverage figure as they
\* were, so that an export after a reset still saves the plot of the last
\* run.
C25_Reset ==
    /\ [](WasReset =>
            /\ \A key \in DOMAIN default_param_values :
                  param_inputs_widgets[key] = default_param_values[key]
            /\ param_inputs_widgets.env_type = 0
            /\ param_inputs_widgets.colormap = 0
            /\ param_inputs_widgets.tx_power_slider = 400
            /\ param_inputs_widgets.antenna_gain_slider = 170
            /\ param_inputs_widgets.frequency_slider = 2600
            /\ analysis_display = initial_html
            /\ cdf_figure = empty_cdf_figure)
    /\ [][/\ WasReset' =>
                /\ current_simulation_results' = current_simulation_results
                /\ figure' = figure
          /\ (WasReset /\ Exported' /\ ~current_simulation_results.is_none) =>
                /\ ~Contains(message_boxes', "information:nothing_to_export")
                /\ saved_figure'.saved => saved_figure'.figure = figure
                /\ figure' = figure
       ]_vars

\* a reset after a run: the field and the coverage figure of the run are
\* kept, the report and the CDF are cleared
C25_Witness ==
    /\ WasReset
    /\ ~current_simulation_results.is_none
    /\ figure = CoverageFigure(current_simulation_results.strengths)
    /\ analysis_display = initial_html
    /\ cdf_figure = empty_cdf_figure
    /\ param_inputs_widgets = widgets(default_param_values)

-----------------------------------------------------------------------------
(* Every run ends in a message *)

FailedStatus(raises) ==
    IF raises = "ValueError" THEN "failed:ValueError" ELSE "failed:Exception"

\* the statuses shown after the call named step has returned
StatusesAfter(step) ==
    CASE step = "create_grid" -> {"computing", "plotting", "reporting", "done"}
      [] step = "simulate_signal_strength" -> {"plotting", "reporting", "done"}
      [] step = "_plot_simulation_results" -> {"reporting", "done"}
      [] OTHER -> {"done"}

\* the warning of each check
AbortBox(status) ==
    CASE status = "abort:step" -> "warning:step"
      [] status = "abort:frequency" -> "warning:frequency"
      [] status = "abort:range" -> "warning:range"
      [] OTHER -> "warning:grid"

\* the effect e is that of a run stopped by a check: one warning, the status
\* of the check last, and no later step begun
EndsInAbort(e) ==
    /\ Last(e.status) \in AbortStatuses
    /\ Len(e.boxes) >= 1
    /\ Last(e.boxes) = AbortBox(Last(e.status))
    /\ \A i \in 1..Len(e.status) :
          e.status[i] \notin {"computing", "plotting", "reporting", "done",
                              "failed:ValueError", "failed:Exception"}
    /\ Last(e.status) # "abort:grid" => ~Contains(e.status, "creating_grid")

\* C26: no exception leaves run_simulation: whichever call raises (grid
\* creation, evaluation, plot, report, CDF), the run ends in the handler with
\* a message box and a failure status, a ValueError shown as a warning and
\* any other exception as critical; and a run stopped by a check ends with
\* the warning and the status of that check before any later step runs.
C26_NoEscape ==
    /\ Ran =>
          /\ Last(status_bar) \in
                AbortStatuses \cup {"done", "failed:ValueError", "failed:Exception"}
          /\ Last(status_bar) = "done" => ~Contains(message_boxes, "warning:ValueError")
                                          /\ ~Contains(message_boxes, "critical:Exception")
          /\ Last(status_bar) = "failed:ValueError" =>
                Len(message_boxes) >= 1 /\ Last(message_boxes) = "warning:ValueError"
          /\ Last(status_bar) = "failed:Exception" =>
                Len(message_boxes) >= 1 /\ Last(message_boxes) = "critical:Exception"
          /\ Aborted =>
                EndsInAbort([status |-> status_bar, boxes |-> message_boxes])
    /\ handler # "no_app" =>
          /\ \A effects \in {run_simulation_effects(param_inputs_widgets)} :
                \A fault \in Faults \ {NoFault} :
                   LET e == effects[fault]
                   IN  IF EffectAborted(e)
                       THEN EndsInAbort(e)
                       ELSE /\ Last(e.status) = FailedStatus(fault.raises)
                            /\ Len(e.boxes) >= 1
                            /\ Last(e.boxes) =
                                  IF fault.raises = "ValueError"
                                  THEN "warning:ValueError"
                                  ELSE "critical:Exception"
                            /\ \A i \in 1..Len(e.status) :
                                  e.status[i] \notin StatusesAfter(fault.step)
          /\ \A f \in NonPositiveFrequencies :
                \A effects \in {run_simulation_effects(WithFrequency(f))} :
                   \A fault \in Faults :
                      /\ EndsInAbort(effects[fault])
                      /\ Last(effects[fault].status) = "abort:frequency"

\* a run in which the CDF plot raised a ValueError after the report was shown
C26_Witness ==
    /\ Ran
    /\ Last(status_bar) = "failed:ValueError"
    /\ Last(message_boxes) = "warning:ValueError"
    /\ Contains(status_bar, "reporting")
    /\ analysis_display.kind = "report"
    /\ cdf_figure = unfinished_cdf_figure

-----------------------------------------------------------------------------
(* An environment that is none of the four *)

\* C27: for an environment_type that is none of urban_dense, urban_macro,
\* suburban and rural_macro the call returns, without an error, the free-space
\* result (transmit_power_dbm + antenna_gain_dbi) - FSPL when distance > 0
\* and frequency_mhz > 0, the additional loss being exactly 0; and for
\* distance <= 0 or frequency_mhz <= 0 the sentinel returned is the same for
\* every environment, one of the four or not.
C27_UnknownEnvironment ==
    /\ (Returned /\ call_env \notin FourEnvironments
           /\ call_distance > 0 /\ call_frequency > 0) =>
          /\ additional_loss(call_distance, call_frequency, call_env) = 0
          /\ call_result = (call_power + call_gain)
                           - C3_FSPL(call_frequency, call_distance)
    /\ (Returned /\ (call_distance <= 0 \/ call_frequency <= 0)) =>
          /\ call_result \in {call_power - 200000, call_power - 300000}
          /\ \A env \in Environments :
                signal_strength_model(call_distance, call_power, call_frequency,
                                      call_gain, env) = call_result

\* a call for the environment "indoor" at 100 m that returned the free-space
\* result, above what urban_dense gives there
C27_Witness ==
    /\ Returned
    /\ call_env = "indoor"
    /\ call_distance = 10000
    /\ call_frequency > 0
    /\ call_result = (call_power + call_gain)
                     - C3_FSPL(call_frequency, call_distance)
    /\ call_result > signal_strength_model(call_distance, call_power,
                         call_frequency, call_gain, "urban_dense")

=============================================================================
